---- MODULE Spec2Model ----
(***************************************************************************)
(* Model of tmus (src/tmus/app.py): the search filter search_library and   *)
(* the interactive session loop of main_ui.                                *)
(*                                                                         *)
(* Strings are sequences of character codes (ord values), so lower(),      *)
(* strip(), basename and substring matching are computed, not assumed.     *)
(* Python indices are 0-based; sequences here are 1-based, so list[i] is   *)
(* PyIndex(list, i) and list[a:b] is PySlice(list, a, b).                  *)
(*                                                                         *)
(* One action is one iteration of the `while True` loop of main_ui for one *)
(* key returned by getch(): resize handling, the draw-time computation of  *)
(* the visible lists, the repeat logic of the now-playing section, and the *)
(* key handler.  What the terminal and the playback engine report in that  *)
(* iteration (dimensions, ended flag, time, length) are inputs.            *)
(***************************************************************************)
EXTENDS Integers, Sequences, FiniteSets, TLC

\* ------------------------------------------------------------ bounds

\* Largest number of list rows (max_rows) of the terminals enumerated.
MaxRows == 2
\* Longest query buffer the environment types (printable keys are only
\* pressed in search mode while the buffer is shorter than this).
MaxQuery == 2

\* the most artists in an index handed to search_library on its own
MaxArtists == 2

\* ------------------------------------------------- program constants

PADDING == 2
InitialVolume == 50
VolumeStep == 5
MaxVolume == 100
SeekShort == 5000
SeekLong == 10000
\* height - 10 rows of content, of which 2 are window borders
ContentMargin == 10
BorderRows == 2

\* key codes: curses constants and ord() values
KEY_UP == 259
KEY_DOWN == 258
KEY_LEFT == 260
KEY_RIGHT == 261
KEY_ENTER == 343
KEY_BACKSPACE == 263
KEY_ESC == 27
KEY_LF == 10
KEY_CR == 13
KEY_BS == 8
KEY_DEL == 127
KEY_SLASH == 47
KEY_C == 99
KEY_EQUALS == 61
KEY_MINUS == 45
KEY_COMMA == 44
KEY_PERIOD == 46
KEY_LESS == 60
KEY_GREATER == 62
KEY_P == 112
KEY_R == 114
KEY_Q == 113
NO_KEY == -1

\* what player.play() returns: 0 when playback starts, -1 when the engine
\* rejects the media
PlayOk == 0
PlayFailed == -1

\* Python's None for curr_song / curr_artist (both are only tested for truth)
None == << >>

\* ------------------------------------------------------ Python helpers

Min(a, b) == IF a < b THEN a ELSE b
Max(a, b) == IF a > b THEN a ELSE b

\* list[i] for i >= 0
PyIndex(s, i) == s[i + 1]

\* list[a:b], with Python's treatment of negative and out-of-range bounds
PySlice(s, a, b) ==
    LET n  == Len(s)
        lo == IF a < 0 THEN Max(0, n + a) ELSE Min(a, n)
        hi == IF b < 0 THEN Max(0, n + b) ELSE Min(b, n)
    IN  IF hi <= lo THEN << >> ELSE SubSeq(s, lo + 1, hi)

\* str.lower() on one ASCII character
LowerChar(c) == IF c >= 65 /\ c <= 90 THEN c + 32 ELSE c

\* str.lower()
Lower(s) == [i \in 1..Len(s) |-> LowerChar(s[i])]

IsSpace(c) == c \in {9, 10, 11, 12, 13, 32}

\* str.strip()
Strip(s) ==
    LET nonsp == {i \in 1..Len(s) : ~IsSpace(s[i])}
    IN  IF nonsp = {} THEN << >>
        ELSE LET first == CHOOSE i \in nonsp : \A j \in nonsp : i <= j
                 last  == CHOOSE i \in nonsp : \A j \in nonsp : i >= j
             IN  SubSeq(s, first, last)

\* `q in s` for strings
IsSubstring(q, s) ==
    \E k \in 0..(Len(s) - Len(q)) : SubSeq(s, k + 1, k + Len(q)) = q

\* os.path.basename: what follows the last "/"
Basename(p) ==
    LET slashes == {i \in 1..Len(p) : p[i] = 47}
        cut     == IF slashes = {} THEN 0
                   ELSE CHOOSE i \in slashes : \A j \in slashes : i >= j
    IN  SubSeq(p, cut + 1, Len(p))

\* ------------------------------------------------------- track index

\* A library is the ordered dict artist -> albums, as the sequence of its
\* items; an album is [name, tracks].

\* tmus.music_scanner.flatten_album: the albums' tracks, in album order
\* then track order
RECURSIVE flatten_album(_)
flatten_album(albums) ==
    IF albums = << >> THEN << >>
    ELSE Head(albums).tracks \o flatten_album(Tail(albums))

\* list(library.keys())
Keys(lib) == [i \in 1..Len(lib) |-> lib[i].artist]

\* library[artist]
Lookup(lib, artist) ==
    LET i == CHOOSE j \in 1..Len(lib) : lib[j].artist = artist
    IN  lib[i].albums

\* any(query_lower in basename(song).lower() for song in all_songs)
SongMatches(query_lower, all_songs) ==
    \E i \in 1..Len(all_songs) :
        IsSubstring(query_lower, Lower(Basename(all_songs[i])))

\* FilterItems matching the query against whole paths, not basenames
RECURSIVE FilterItemsMatchesPath(_, _)
FilterItemsMatchesPath(items, query_lower) ==
    IF items = << >> THEN << >>
    ELSE LET it   == Head(items)
             hit  == \/ IsSubstring(query_lower, Lower(it.artist))
                     \/ \E i \in 1..Len(flatten_album(it.albums)) :
                            IsSubstring(query_lower,
                                        Lower(flatten_album(it.albums)[i]))
             rest == FilterItemsMatchesPath(Tail(items), query_lower)
         IN  IF hit THEN <<it>> \o rest ELSE rest

\* FilterItems keeping, of an included artist, only the matching tracks
RECURSIVE FilterItemsMatchingTracksOnly(_, _)
FilterItemsMatchingTracksOnly(items, query_lower) ==
    IF items = << >> THEN << >>
    ELSE LET it   == Head(items)
             hits(tracks) ==
                 SelectSeq(tracks, LAMBDA p :
                     IsSubstring(query_lower, Lower(Basename(p))))
             hit  == \/ IsSubstring(query_lower, Lower(it.artist))
                     \/ SongMatches(query_lower, flatten_album(it.albums))
             cut  == [it EXCEPT !.albums =
                         [j \in 1..Len(it.albums) |->
                             [it.albums[j] EXCEPT !.tracks = hits(@)]]]
             rest == FilterItemsMatchingTracksOnly(Tail(items), query_lower)
         IN  IF hit THEN <<cut>> \o rest ELSE rest

\* the loop of search_library over library.items(), keeping the items whose
\* artist or songs match
RECURSIVE FilterItems(_, _)
FilterItems(items, query_lower) ==
    IF items = << >> THEN << >>
    ELSE LET it             == Head(items)
             artist_matches == IsSubstring(query_lower, Lower(it.artist))
             song_matches   == SongMatches(query_lower, flatten_album(it.albums))
             rest           == FilterItems(Tail(items), query_lower)
         IN  IF artist_matches \/ song_matches THEN <<it>> \o rest ELSE rest

\* search_library returning nothing for the empty query
search_libraryEmptyOnBlank(lib, query) ==
    LET kept == IF query = << >> THEN << >> ELSE FilterItems(lib, Lower(query))
    IN  [lib |-> kept, artists |-> Keys(kept)]

\* search_library(library, query) -> (filtered_library, filtered_artists)
search_library(lib, query) ==
    IF query = << >> THEN [lib |-> lib, artists |-> Keys(lib)]
    ELSE LET kept == FilterItems(lib, Lower(query))
         IN  [lib |-> kept, artists |-> Keys(kept)]

\* ------------------------------------------------------------ fixtures

\* Artists "A" (tracks "/q/A/b", "/q/A/c"), "B" (albums "y": "/m/B/a" and
\* "z": "/m/B/d", "/m/B/e"), "C" (track "/m/C/Q") and "D" (track "/m/D/f").
\* The letter q occurs in a directory name of "A" but in none of its
\* basenames, and in upper case in the only basename of "C".
Lib4 ==
    << [artist |-> <<65>>,
        albums |-> << [name |-> <<120>>,
                       tracks |-> << <<47, 113, 47, 65, 47, 98>>,
                                     <<47, 113, 47, 65, 47, 99>> >>] >>],
       [artist |-> <<66>>,
        albums |-> << [name |-> <<121>>,
                       tracks |-> << <<47, 109, 47, 66, 47, 97>> >>],
                      [name |-> <<122>>,
                       tracks |-> << <<47, 109, 47, 66, 47, 100>>,
                                     <<47, 109, 47, 66, 47, 101>> >>] >>],
       [artist |-> <<67>>,
        albums |-> << [name |-> <<119>>,
                       tracks |-> << <<47, 109, 47, 67, 47, 81>> >>] >>],
       [artist |-> <<68>>,
        albums |-> << [name |-> <<118>>,
                       tracks |-> << <<47, 109, 47, 68, 47, 102>> >>] >>] >>

\* the indexes update_library_cache may return: none, or the fixture
Libraries == { << >>, Lib4 }

\* Artists "X" (tracks "/a", "/b", "/c") and "Q" (tracks "/d", "/e"): the
\* query "q" selects "Q" alone, whose track list is shorter than that of "X"
LibXQ ==
    << [artist |-> <<88>>,
        albums |-> << [name |-> <<120>>,
                       tracks |-> << <<47, 97>>, <<47, 98>>, <<47, 99>> >>] >>],
       [artist |-> <<81>>,
        albums |-> << [name |-> <<120>>,
                       tracks |-> << <<47, 100>>, <<47, 101>> >>] >>] >>

\* terminal heights with 0..MaxRows list rows (a lower terminal has no room
\* for the two list windows), and the dimensions getmaxyx() may return
Heights == (ContentMargin + BorderRows)..(ContentMargin + BorderRows + MaxRows)
Dims == {<<h, 80>> : h \in Heights} \cup {<<ContentMargin + BorderRows + MaxRows, 81>>}

\* printable characters the environment types into the query: "q", " "
SearchChars == {113, 32}
\* a printable key with no binding in normal mode: "a"
UnboundKeys == {97}

\* what the engine may report for get_time() / get_length(), in ms:
\* -1 is "no media / no input yet", a length of 0 is "not known yet"
Times == {-1, 8000}
Lengths == {-1, 0, 10000}

\* "Unknown Artist"
UnknownArtist == <<85, 110, 107, 110, 111, 119, 110, 32, 65, 114, 116, 105, 115, 116>>

\* --------------------------------------------------------------- state

VARIABLES
    library,           \* the index returned by update_library_cache
    pc,                \* "loop": in the while loop; "quit": left by break;
                       \* "empty": the empty-library message is shown and
                       \* getch() waits; "done": returned after it
    height, width,     \* last known terminal dimensions
    max_rows,
    selected_artist, artist_offset,
    selected_song, song_offset,
    curr_song, curr_artist,
    playing, repeat,
    search_active, search_query,
    filtered_library, filtered_artists,
    volume,
    \* what the latest iteration read from its collaborators
    new_height, new_width,   \* stdscr.getmaxyx()
    key,                     \* stdscr.getch()
    ended,                   \* the engine's state is vlc.State.Ended
    player_time,             \* player.get_time() at a seek key, else 0
    player_length,           \* player.get_length() at a seek key, else 0
    play_status,             \* player.play() of the Enter handler, PlayOk
                             \* when it was not called
    \* what the latest iteration sent to its collaborators
    cmds,              \* the calls made on the player, in order
    screen,            \* resize_clear: stdscr.clear() of the resize block ran;
                       \* header: the indicator drawn in the header line;
                       \* cancel_clear: stdscr.clear() of the Escape branch ran;
                       \* message: the text written at (0, 0)
    \* history variable (not program state): the artist list that was
    \* active when search mode was entered, << >> outside search mode
    entry_artists

vars == << library, pc, height, width, max_rows, selected_artist, artist_offset,
           selected_song, song_offset, curr_song, curr_artist, playing, repeat,
           search_active, search_query, filtered_library, filtered_artists,
           volume, new_height, new_width, key, ended, player_time,
           player_length, play_status, cmds, screen, entry_artists >>

\* artists = list(library.keys())
artists == Keys(library)

\* the local variables of main_ui and the latest iteration's inputs and
\* outputs, as one record
State ==
    [ pc |-> pc, height |-> height, width |-> width, max_rows |-> max_rows,
      selected_artist |-> selected_artist, artist_offset |-> artist_offset,
      selected_song |-> selected_song, song_offset |-> song_offset,
      curr_song |-> curr_song, curr_artist |-> curr_artist,
      playing |-> playing, repeat |-> repeat,
      search_active |-> search_active, search_query |-> search_query,
      filtered_library |-> filtered_library, filtered_artists |-> filtered_artists,
      volume |-> volume, new_height |-> new_height, new_width |-> new_width,
      key |-> key, ended |-> ended, player_time |-> player_time,
      player_length |-> player_length, play_status |-> play_status,
      cmds |-> cmds, screen |-> screen,
      \* input slot: whether the engine rejects what this iteration plays
      rejects |-> FALSE ]

Cmd(op, arg) == [op |-> op, arg |-> arg]

\* instance.media_new(path); player.set_media(media); player.play()
LoadAndPlay(path) == << Cmd("set_media", path), Cmd("play", 0) >>

\* nothing drawn or cleared yet in this iteration
BlankScreen ==
    [resize_clear |-> FALSE, header |-> <<"", << >> >>, cancel_clear |-> FALSE,
     message |-> ""]

\* stdscr.addstr(0, 0, ...) of the empty-library branch
EmptyMessage == "No mp3 files found in the specified path."

\* max_rows = (height - 10) - 2
MaxRowsOf(h) == (h - ContentMargin) - BorderRows

\* the four cursor assignments that appear together throughout main_ui
ResetCursors(s) ==
    [s EXCEPT !.selected_artist = 0, !.artist_offset = 0,
              !.selected_song = 0, !.song_offset = 0]

\* Resize with the song_offset reset left out
ResizeKeepsSongOffset(s) ==
    IF <<s.new_height, s.new_width>> # <<s.height, s.width>>
    THEN [s EXCEPT !.selected_artist = 0, !.artist_offset = 0,
                   !.selected_song = 0,
                   !.height = s.new_height, !.width = s.new_width,
                   !.max_rows = MaxRowsOf(s.new_height),
                   !.screen.resize_clear = TRUE]
    ELSE s

\* "Handle resize"
Resize(s) ==
    IF <<s.new_height, s.new_width>> # <<s.height, s.width>>
    THEN [ResetCursors(s) EXCEPT !.height = s.new_height, !.width = s.new_width,
                                 !.max_rows = MaxRowsOf(s.new_height),
                                 !.screen.resize_clear = TRUE]
    ELSE s

\* "Show search indicator in header if active"
DrawHeader(s) ==
    IF s.search_active
    THEN [s EXCEPT !.screen.header = <<"[SEARCH MODE]", << >> >>]
    ELSE IF s.search_query # << >>
    THEN [s EXCEPT !.screen.header = <<"[Filtered: ", s.search_query>>]
    ELSE s

\* current_artists = filtered_artists if search_query else artists
CurrentArtists(s) ==
    IF s.search_query # << >> THEN s.filtered_artists ELSE artists

\* current_library = filtered_library if search_query else library
CurrentLibrary(s) ==
    IF s.search_query # << >> THEN s.filtered_library ELSE library

\* the lists computed while drawing the artists and songs sections
Draw(s) ==
    LET current_artists == CurrentArtists(s)
        visible_artists == PySlice(current_artists, s.artist_offset,
                                   s.artist_offset + s.max_rows)
    IN  IF visible_artists # << >> /\ s.selected_artist < Len(visible_artists)
        THEN LET albums == Lookup(CurrentLibrary(s),
                                  PyIndex(visible_artists, s.selected_artist))
                 all    == flatten_album(albums)
             IN  [ current_artists     |-> current_artists,
                   visible_artists     |-> visible_artists,
                   all_songs_by_artist |-> all,
                   visible_songs       |-> PySlice(all, s.song_offset,
                                                   s.song_offset + s.max_rows) ]
        ELSE [ current_artists     |-> current_artists,
               visible_artists     |-> visible_artists,
               all_songs_by_artist |-> << >>,
               visible_songs       |-> << >> ]

\* NowPlaying restarting the track whether or not repeat is on
NowPlayingIgnoresRepeat(s) ==
    IF s.curr_song # None /\ s.curr_artist # None /\ s.ended
    THEN [s EXCEPT !.cmds = @ \o << Cmd("stop", 0) >> \o LoadAndPlay(s.curr_song)]
    ELSE s

\* the repeat logic of the now-playing section; s.ended is
\* player.get_state() == vlc.State.Ended
NowPlaying(s) ==
    IF s.curr_song # None /\ s.curr_artist # None /\ s.repeat /\ s.ended
    THEN [s EXCEPT !.cmds = @ \o << Cmd("stop", 0) >> \o LoadAndPlay(s.curr_song)]
    ELSE s

\* ------------------------------------------------- search-mode keys

\* SearchEscape forgetting the current track
SearchEscapeForgetsTrack(s) ==
    [ResetCursors(s) EXCEPT !.search_active = FALSE, !.search_query = << >>,
                            !.filtered_library = library,
                            !.filtered_artists = Keys(library),
                            !.curr_song = None, !.curr_artist = None,
                            !.screen.cancel_clear = TRUE]

\* SearchEscape leaving the query buffer as it is
SearchEscapeKeepsQuery(s) ==
    [ResetCursors(s) EXCEPT !.search_active = FALSE,
                            !.filtered_library = library,
                            !.filtered_artists = Keys(library),
                            !.screen.cancel_clear = TRUE]

\* key == 27
SearchEscape(s) ==
    [ResetCursors(s) EXCEPT !.search_active = FALSE, !.search_query = << >>,
                            !.filtered_library = library,
                            !.filtered_artists = Keys(library),
                            !.screen.cancel_clear = TRUE]

\* SearchConfirm searching the view already filtered instead of the library
SearchConfirmNarrows(s) ==
    LET left == [s EXCEPT !.search_active = FALSE]
    IN  IF Strip(s.search_query) # << >>
        THEN LET found == search_library(s.filtered_library, Strip(s.search_query))
             IN  [ResetCursors(left) EXCEPT !.filtered_library = found.lib,
                                            !.filtered_artists = found.artists]
        ELSE left

\* key == curses.KEY_ENTER or key == 10 or key == 13
SearchConfirm(s) ==
    LET left == [s EXCEPT !.search_active = FALSE]
    IN  IF Strip(s.search_query) # << >>
        THEN LET found == search_library(library, Strip(s.search_query))
             IN  [ResetCursors(left) EXCEPT !.filtered_library = found.lib,
                                            !.filtered_artists = found.artists]
        ELSE left

\* SearchBackspace emptying the buffer
SearchBackspaceClears(s) == [s EXCEPT !.search_query = << >>]

\* key == curses.KEY_BACKSPACE or key == 8 or key == 127
SearchBackspace(s) ==
    IF s.search_query # << >>
    THEN [s EXCEPT !.search_query = SubSeq(@, 1, Len(@) - 1)]
    ELSE s

\* 32 <= key <= 126
SearchAppend(s, k) == [s EXCEPT !.search_query = Append(@, k)]

\* HandleSearchKey with the quit key honoured in search mode too
HandleSearchKeyQuits(s, k) ==
    IF k = KEY_Q THEN [s EXCEPT !.pc = "quit"]
    ELSE IF k = KEY_ESC THEN SearchEscape(s)
    ELSE IF k \in {KEY_ENTER, KEY_LF, KEY_CR} THEN SearchConfirm(s)
    ELSE IF k \in {KEY_BACKSPACE, KEY_BS, KEY_DEL} THEN SearchBackspace(s)
    ELSE IF 32 <= k /\ k <= 126 THEN SearchAppend(s, k)
    ELSE s

\* "SEARCH INPUT HANDLING": the branch taken while search_active
HandleSearchKey(s, k) ==
    IF k = KEY_ESC THEN SearchEscape(s)
    ELSE IF k \in {KEY_ENTER, KEY_LF, KEY_CR} THEN SearchConfirm(s)
    ELSE IF k \in {KEY_BACKSPACE, KEY_BS, KEY_DEL} THEN SearchBackspace(s)
    ELSE IF 32 <= k /\ k <= 126 THEN SearchAppend(s, k)
    ELSE s

\* ------------------------------------------------- normal-mode keys

\* key == ord("/")
EnterSearch(s) == [s EXCEPT !.search_active = TRUE]

\* ClearFilter without the cursor reset
ClearFilterKeepsCursors(s) ==
    IF s.search_query # << >>
    THEN [s EXCEPT !.search_query = << >>,
                   !.filtered_library = library,
                   !.filtered_artists = Keys(library)]
    ELSE s

\* key == ord("c") and search_query
ClearFilter(s) ==
    IF s.search_query # << >>
    THEN [ResetCursors(s) EXCEPT !.search_query = << >>,
                                 !.filtered_library = library,
                                 !.filtered_artists = Keys(library)]
    ELSE s

\* key == curses.KEY_UP
NavUp(s) ==
    LET r == [s EXCEPT !.song_offset = 0, !.selected_song = 0]
    IN  IF r.selected_artist > 0
        THEN [r EXCEPT !.selected_artist = @ - 1]
        ELSE IF r.selected_artist + r.artist_offset > 0
        THEN [r EXCEPT !.artist_offset = @ - 1]
        ELSE r

\* NavDown with the scroll guard off by one (`< len(current_artists)`)
NavDownPastEnd(s) ==
    LET r == [s EXCEPT !.song_offset = 0, !.selected_song = 0]
        current_artists == CurrentArtists(r)
    IN  IF r.selected_artist < Min(r.max_rows - 1, Len(current_artists) - 1)
        THEN [r EXCEPT !.selected_artist = @ + 1]
        ELSE IF r.selected_artist + r.artist_offset < Len(current_artists)
        THEN [r EXCEPT !.artist_offset = @ + 1]
        ELSE r

\* key == curses.KEY_DOWN
NavDown(s) ==
    LET r == [s EXCEPT !.song_offset = 0, !.selected_song = 0]
        current_artists == CurrentArtists(r)
    IN  IF r.selected_artist < Min(r.max_rows - 1, Len(current_artists) - 1)
        THEN [r EXCEPT !.selected_artist = @ + 1]
        ELSE IF r.selected_artist + r.artist_offset < Len(current_artists) - 1
        THEN [r EXCEPT !.artist_offset = @ + 1]
        ELSE r

\* key == curses.KEY_LEFT
NavLeft(s) ==
    IF s.selected_song > 0
    THEN [s EXCEPT !.selected_song = @ - 1]
    ELSE IF s.selected_song + s.song_offset > 0
    THEN [s EXCEPT !.song_offset = @ - 1]
    ELSE s

\* key == curses.KEY_RIGHT; d holds the lists computed while drawing
NavRight(s, d) ==
    IF s.selected_song < Min(s.max_rows - 1, Len(d.all_songs_by_artist) - 1)
    THEN [s EXCEPT !.selected_song = @ + 1]
    ELSE IF s.selected_song + s.song_offset < Len(d.all_songs_by_artist) - 1
    THEN [s EXCEPT !.song_offset = @ + 1]
    ELSE s

\* SelectSong indexing the artist's whole track list by the on-page cursor,
\* i.e. forgetting song_offset
SelectSongIgnoresOffset(s, d) ==
    IF d.visible_songs # << >> /\ s.selected_song < Len(d.visible_songs)
    THEN LET song == PyIndex(d.all_songs_by_artist, s.selected_song)
         IN  [s EXCEPT !.curr_song = song,
                       !.curr_artist =
                           IF d.visible_artists # << >>
                              /\ s.selected_artist < Len(d.visible_artists)
                           THEN PyIndex(d.visible_artists, s.selected_artist)
                           ELSE UnknownArtist,
                       !.cmds = @ \o LoadAndPlay(song),
                       !.playing = TRUE]
    ELSE s

\* key == curses.KEY_ENTER or key == 10 or key == 13
SelectSong(s, d) ==
    IF d.visible_songs # << >> /\ s.selected_song < Len(d.visible_songs)
    THEN LET song == PyIndex(d.visible_songs, s.selected_song)
         IN  [s EXCEPT !.curr_song = song,
                       !.curr_artist =
                           IF d.visible_artists # << >>
                              /\ s.selected_artist < Len(d.visible_artists)
                           THEN PyIndex(d.visible_artists, s.selected_artist)
                           ELSE UnknownArtist,
                       !.cmds = @ \o LoadAndPlay(song),
                       !.play_status = IF s.rejects THEN PlayFailed ELSE PlayOk,
                       !.playing = TRUE]
    ELSE s

\* VolumeUp without the upper clamp
VolumeUpUnclamped(s) ==
    LET v == s.volume + VolumeStep
    IN  [s EXCEPT !.volume = v, !.cmds = @ \o << Cmd("audio_set_volume", v) >>]

\* key == ord("=")
VolumeUp(s) ==
    LET v == Min(MaxVolume, s.volume + VolumeStep)
    IN  [s EXCEPT !.volume = v, !.cmds = @ \o << Cmd("audio_set_volume", v) >>]

\* key == ord("-")
VolumeDown(s) ==
    LET v == Max(0, s.volume - VolumeStep)
    IN  [s EXCEPT !.volume = v, !.cmds = @ \o << Cmd("audio_set_volume", v) >>]

\* key == ord(",") / ord("<"): new_time = max(0, current_time - step)
SeekBackward(s, step) ==
    IF s.curr_song # None
    THEN LET current_time == s.player_time
         IN  [s EXCEPT !.cmds = @ \o << Cmd("set_time", Max(0, current_time - step)) >>]
    ELSE s

\* key == ord(".") / ord(">"): new_time = min(duration, current_time + step)
SeekForward(s, step) ==
    IF s.curr_song # None
    THEN LET current_time == s.player_time
             duration     == s.player_length
         IN  [s EXCEPT !.cmds = @ \o << Cmd("set_time", Min(duration, current_time + step)) >>]
    ELSE s

\* key == ord("p"): player.pause() whether playing or not
Pause(s) == [s EXCEPT !.cmds = @ \o << Cmd("pause", 0) >>]

\* key == ord("r")
ToggleRepeat(s) == [s EXCEPT !.repeat = ~@]

\* key == ord("q"): break
Quit(s) == [s EXCEPT !.pc = "quit"]

\* the if/elif chain under "NAVIGATION"
NavigationChain(s, d, k) ==
    IF k = KEY_UP THEN NavUp(s)
    ELSE IF k = KEY_DOWN THEN NavDown(s)
    ELSE IF k = KEY_LEFT THEN NavLeft(s)
    ELSE IF k = KEY_RIGHT THEN NavRight(s, d)
    ELSE IF k \in {KEY_ENTER, KEY_LF, KEY_CR} THEN SelectSong(s, d)
    ELSE IF k = KEY_EQUALS THEN VolumeUp(s)
    ELSE IF k = KEY_MINUS THEN VolumeDown(s)
    ELSE IF k = KEY_COMMA THEN SeekBackward(s, SeekShort)
    ELSE IF k = KEY_PERIOD THEN SeekForward(s, SeekShort)
    ELSE IF k = KEY_LESS THEN SeekBackward(s, SeekLong)
    ELSE IF k = KEY_GREATER THEN SeekForward(s, SeekLong)
    ELSE IF k = KEY_P THEN Pause(s)
    ELSE IF k = KEY_R THEN ToggleRepeat(s)
    ELSE IF k = KEY_Q THEN Quit(s)
    ELSE s

\* "NORMAL MODE KEYS": "/" continues; "c" clears and falls into the chain
HandleNormalKey(s, d, k) ==
    IF k = KEY_SLASH THEN EnterSearch(s)
    ELSE LET c == IF k = KEY_C THEN ClearFilter(s) ELSE s
         IN  NavigationChain(c, d, k)

\* one iteration of the while loop, from `stdscr.timeout(200)` to the end of
\* the key handling; s is the state at its start with this iteration's
\* inputs filled in
LoopBody(s) ==
    LET s1 == DrawHeader(Resize(s))
        d  == Draw(s1)
        s2 == NowPlaying(s1)
    IN  IF s2.search_active
        THEN HandleSearchKey(s2, s2.key)
        ELSE HandleNormalKey(s2, d, s2.key)

\* -------------------------------------------------------------- actions

\* the state after construction: lines 115-158 of main_ui
InitOf(libs) ==
    /\ library \in libs
    /\ \E d \in Dims : height = d[1] /\ width = d[2]
    /\ max_rows = MaxRowsOf(height)
    /\ selected_artist = 0 /\ artist_offset = 0
    /\ selected_song = 0 /\ song_offset = 0
    /\ curr_song = None /\ curr_artist = None
    /\ playing = FALSE /\ repeat = FALSE
    /\ search_active = FALSE /\ search_query = << >>
    /\ filtered_library = library
    /\ filtered_artists = Keys(library)
    /\ volume = InitialVolume
    /\ new_height = height /\ new_width = width
    /\ key = NO_KEY /\ ended = FALSE
    /\ player_time = 0 /\ player_length = 0
    /\ play_status = PlayOk
    /\ entry_artists = << >>
    /\ IF library = << >>
       THEN /\ pc = "empty" /\ cmds = << >>
            /\ screen = [BlankScreen EXCEPT !.message = EmptyMessage]
       ELSE /\ pc = "loop"
            /\ cmds = << Cmd("audio_set_volume", InitialVolume) >>
            /\ screen = BlankScreen

Init == InitOf(Libraries)

\* the state at the start of an iteration with the iteration's inputs
Inputs(d, e, k, r) ==
    [State EXCEPT !.new_height = d[1], !.new_width = d[2], !.ended = e,
                  !.key = k, !.player_time = r[1], !.player_length = r[2],
                  !.play_status = PlayOk,
                  !.cmds = << >>, !.screen = BlankScreen]

Assign(n) ==
    /\ library' = library
    /\ pc' = n.pc
    /\ height' = n.height /\ width' = n.width /\ max_rows' = n.max_rows
    /\ selected_artist' = n.selected_artist /\ artist_offset' = n.artist_offset
    /\ selected_song' = n.selected_song /\ song_offset' = n.song_offset
    /\ curr_song' = n.curr_song /\ curr_artist' = n.curr_artist
    /\ playing' = n.playing /\ repeat' = n.repeat
    /\ search_active' = n.search_active /\ search_query' = n.search_query
    /\ filtered_library' = n.filtered_library
    /\ filtered_artists' = n.filtered_artists
    /\ volume' = n.volume
    /\ new_height' = n.new_height /\ new_width' = n.new_width
    /\ key' = n.key /\ ended' = n.ended
    /\ player_time' = n.player_time /\ player_length' = n.player_length
    /\ play_status' = n.play_status
    /\ cmds' = n.cmds
    /\ screen' = n.screen
    /\ entry_artists' = IF ~n.search_active THEN << >>
                        ELSE IF ~search_active THEN CurrentArtists(State)
                        ELSE entry_artists

\* what get_time() and get_length() may return together (a known length
\* bounds the time); a seek handler calls them only when a track is current
EngineReports ==
    IF curr_song # None
    THEN {r \in Times \X Lengths : r[2] > 0 => r[1] <= r[2]}
    ELSE {<<0, 0>>}

\* an iteration in which getch() returns k and no seek handler runs; e tells
\* whether the engine's state is Ended
Tick(k, e) ==
    /\ pc = "loop"
    /\ \E d \in Dims : Assign(LoopBody(Inputs(d, e, k, <<0, 0>>)))

\* an iteration in which getch() returns a seek key
SeekTick(k) ==
    /\ pc = "loop"
    /\ \E d \in Dims, r \in EngineReports :
           Assign(LoopBody(Inputs(d, FALSE, k, r)))

NoKey == Tick(NO_KEY, FALSE)
PressUp == Tick(KEY_UP, FALSE)
PressDown == Tick(KEY_DOWN, FALSE)
PressLeft == Tick(KEY_LEFT, FALSE)
PressRight == Tick(KEY_RIGHT, FALSE)
PressEnter == \E k \in {KEY_ENTER, KEY_LF, KEY_CR} : Tick(k, FALSE)
PressEscape == Tick(KEY_ESC, FALSE)
PressBackspace == \E k \in {KEY_BACKSPACE, KEY_BS, KEY_DEL} : Tick(k, FALSE)

\* printable keys reach the query buffer only from SearchChars and only
\* while it is shorter than MaxQuery
TypeChar ==
    /\ search_active /\ Len(search_query) < MaxQuery
    /\ \E k \in SearchChars : Tick(k, FALSE)

\* Enter pressed in search mode
PressConfirm == search_active /\ PressEnter

\* the keys bound in normal mode, pressed in normal mode
PressSlash == ~search_active /\ Tick(KEY_SLASH, FALSE)
PressClear == ~search_active /\ Tick(KEY_C, FALSE)
PressVolumeUp == ~search_active /\ Tick(KEY_EQUALS, FALSE)
PressVolumeDown == ~search_active /\ Tick(KEY_MINUS, FALSE)
PressSeekBack == ~search_active /\ \E k \in {KEY_COMMA, KEY_LESS} : SeekTick(k)
PressSeekForward == ~search_active /\ \E k \in {KEY_PERIOD, KEY_GREATER} : SeekTick(k)
PressPause == ~search_active /\ Tick(KEY_P, FALSE)
PressRepeat == ~search_active /\ Tick(KEY_R, FALSE)
PressQuit == ~search_active /\ Tick(KEY_Q, FALSE)
PressUnbound == ~search_active /\ \E k \in UnboundKeys : Tick(k, FALSE)

\* an iteration that finds the engine's state Ended: the track given to the
\* player has run to its end.  It may bring no key, or one of these keys.
TrackEnds ==
    /\ curr_song # None
    /\ \E k \in {NO_KEY, KEY_LF, KEY_RIGHT, KEY_ESC}
                \cup (IF search_active THEN {} ELSE {KEY_R, KEY_SLASH}) :
           Tick(k, TRUE)

\* Enter pressed in normal mode in an iteration in which the engine rejects
\* the media it is given (an invalid path, say): play() returns -1
PressEnterRejected ==
    /\ pc = "loop" /\ ~search_active
    /\ \E d \in Dims, k \in {KEY_ENTER, KEY_LF, KEY_CR} :
           Assign(LoopBody([Inputs(d, FALSE, k, <<0, 0>>) EXCEPT !.rejects = TRUE]))

\* the keys that may end the wait of the empty-library branch
AnyKeys == {KEY_DOWN, KEY_RIGHT, KEY_LF, KEY_SLASH, KEY_EQUALS, KEY_Q}

\* main_ui returning at once instead of after the message's getch()
DismissEntersLoop ==
    /\ pc = "empty" /\ pc' = "loop"
    /\ \E k \in AnyKeys : key' = k
    /\ UNCHANGED << library, height, width, max_rows, selected_artist,
                    artist_offset, selected_song, song_offset, curr_song,
                    curr_artist, playing, repeat, search_active, search_query,
                    filtered_library, filtered_artists, volume, new_height,
                    new_width, ended, player_time, player_length, play_status,
                    cmds, screen, entry_artists >>

\* `if not library:` stdscr.getch() returns a key and main_ui returns
DismissEmptyMessage ==
    /\ pc = "empty" /\ pc' = "done"
    /\ \E k \in AnyKeys : key' = k
    /\ UNCHANGED << library, height, width, max_rows, selected_artist,
                    artist_offset, selected_song, song_offset, curr_song,
                    curr_artist, playing, repeat, search_active, search_query,
                    filtered_library, filtered_artists, volume, new_height,
                    new_width, ended, player_time, player_length, play_status,
                    cmds, screen, entry_artists >>

\* ---- search_library on its own

\* artist names "a", "B", "c"; track paths "/b/a", "/a/B", "c"
FilterNames == {<<97>>, <<66>>, <<99>>}
FilterTracks == {<<47, 98, 47, 97>>, <<47, 97, 47, 66>>, <<99>>}

\* what an artist maps to: one album "x" of one track, or albums "x" and
\* "y" of one track each
AlbumChoices ==
    {<< [name |-> <<120>>, tracks |-> <<p>>] >> : p \in FilterTracks}
    \cup {<< [name |-> <<120>>, tracks |-> <<pq[1]>>],
             [name |-> <<121>>, tracks |-> <<pq[2]>>] >> :
              pq \in {x \in FilterTracks \X FilterTracks : x[1] # x[2]}}

\* the indexes of at most MaxArtists artists: keys are distinct
FilterLibraries ==
    UNION {{l \in [1..n -> [artist : FilterNames, albums : AlbumChoices]] :
               \A i, j \in 1..n : l[i].artist = l[j].artist => i = j} :
           n \in 0..MaxArtists}

\* the queries: "", "a", "A", "b", "c", "/"
FilterQueries == {<< >>, <<97>>, <<65>>, <<98>>, <<99>>, <<47>>}

\* a library and a query are about to be handed to search_library
InitFilter ==
    /\ library \in FilterLibraries
    /\ pc = "call"
    /\ height = ContentMargin + BorderRows + MaxRows /\ width = 80
    /\ max_rows = MaxRowsOf(height)
    /\ selected_artist = 0 /\ artist_offset = 0
    /\ selected_song = 0 /\ song_offset = 0
    /\ curr_song = None /\ curr_artist = None
    /\ playing = FALSE /\ repeat = FALSE
    /\ search_active = FALSE /\ search_query = << >>
    /\ filtered_library = library
    /\ filtered_artists = Keys(library)
    /\ volume = InitialVolume
    /\ new_height = height /\ new_width = width
    /\ key = NO_KEY /\ ended = FALSE
    /\ player_time = 0 /\ player_length = 0
    /\ play_status = PlayOk
    /\ cmds = << >> /\ screen = BlankScreen
    /\ entry_artists = << >>

\* filtered_library, filtered_artists = search_library(library, search_query)
ApplyFilter ==
    /\ pc \in {"call", "return"} /\ pc' = "return"
    /\ \E q \in FilterQueries :
           /\ search_query' = q
           /\ filtered_library' = search_library(library, q).lib
           /\ filtered_artists' = search_library(library, q).artists
    /\ UNCHANGED << library, height, width, max_rows, selected_artist,
                    artist_offset, selected_song, song_offset, curr_song,
                    curr_artist, playing, repeat, search_active, volume,
                    new_height, new_width, key, ended, player_time,
                    player_length, play_status, cmds, screen, entry_artists >>

SpecFilter == InitFilter /\ [][ApplyFilter]_vars

\* every input
Next ==
    \/ NoKey \/ PressUp \/ PressDown \/ PressLeft \/ PressRight
    \/ PressEnter \/ PressEscape \/ PressBackspace \/ TypeChar
    \/ PressSlash \/ PressClear \/ PressVolumeUp \/ PressVolumeDown
    \/ PressSeekBack \/ PressSeekForward \/ PressPause \/ PressRepeat
    \/ PressQuit \/ PressUnbound \/ TrackEnds \/ PressEnterRejected
    \/ DismissEmptyMessage

Spec == Init /\ [][Next]_vars

\* directional inputs only; with an empty library, the key that ends the
\* wait after the message
NextNav ==
    \/ NoKey \/ PressUp \/ PressDown \/ PressLeft \/ PressRight
    \/ DismissEmptyMessage

SpecNav == Init /\ [][NextNav]_vars

\* browsing and searching: every input but selecting a song and the volume,
\* seek, pause and repeat keys
NextSearch ==
    \/ NoKey \/ PressUp \/ PressDown \/ PressLeft \/ PressRight
    \/ PressConfirm \/ PressEscape \/ PressBackspace \/ TypeChar
    \/ PressSlash \/ PressClear \/ PressQuit \/ PressUnbound

SpecSearch == Init /\ [][NextSearch]_vars

\* selecting a song in the full and in filtered views
NextSelect ==
    \/ NoKey \/ PressUp \/ PressDown \/ PressLeft \/ PressRight
    \/ PressEnter \/ PressEscape \/ TypeChar \/ PressSlash \/ PressClear

SpecSelect == Init /\ [][NextSelect]_vars

\* scrolling in views that searches switch: the library LibXQ, the
\* directional keys and the keys that enter, edit and confirm a search
InitScroll == InitOf({LibXQ})

NextScroll ==
    \/ NoKey \/ PressUp \/ PressDown \/ PressLeft \/ PressRight
    \/ PressSlash \/ TypeChar \/ PressBackspace \/ PressConfirm

SpecScroll == InitScroll /\ [][NextScroll]_vars

\* one volume step up from the initial level
VolumeStepUp == volume = InitialVolume /\ PressVolumeUp

\* the 5-second forward seek key, pressed in normal mode
PressSeekShort == ~search_active /\ SeekTick(KEY_PERIOD)

\* the current track under every kind of input: the library LibXQ, song
\* selection in the full and in the filtered view, search confirm and
\* cancel, clear-filter, navigation in the song list, and the repeat,
\* volume and seek keys
NextTrack ==
    \/ NoKey \/ PressRight \/ PressEnter
    \/ PressSlash \/ TypeChar \/ PressEscape \/ PressClear
    \/ PressRepeat \/ VolumeStepUp \/ PressSeekShort

SpecTrack == InitScroll /\ [][NextTrack]_vars

\* the volume keys
NextVolume == NoKey \/ PressVolumeUp \/ PressVolumeDown

SpecVolume == Init /\ [][NextVolume]_vars

\* playback: selecting a track of the first artist, in and out of search
\* mode, and the repeat, seek, pause and quit keys
NextPlayback ==
    \/ NoKey \/ PressRight \/ PressEnter \/ PressSlash \/ PressEscape
    \/ PressSeekBack \/ PressSeekForward \/ PressPause \/ PressRepeat
    \/ PressQuit \/ TrackEnds \/ PressEnterRejected

SpecPlayback == Init /\ [][NextPlayback]_vars

\* ================================================================ claims

EnterKeys == {KEY_ENTER, KEY_LF, KEY_CR}

\* the active view: the artist list and index that are displayed
ActiveArtists == IF search_query # << >> THEN filtered_artists ELSE artists
ActiveLibrary == IF search_query # << >> THEN filtered_library ELSE library

\* absolute positions of the two cursors
AbsArtist == artist_offset + selected_artist
AbsSong == song_offset + selected_song

\* the flattened track list of the artist under the artist cursor
SelectedSongs ==
    IF AbsArtist >= 0 /\ AbsArtist < Len(ActiveArtists)
    THEN flatten_album(Lookup(ActiveLibrary, ActiveArtists[AbsArtist + 1]))
    ELSE << >>

AllCursorsZero ==
    /\ selected_artist = 0 /\ artist_offset = 0
    /\ selected_song = 0 /\ song_offset = 0

\* C1: with a non-empty library and only directional inputs (Up, Down, Left,
\* Right), for the artist list and for the song list of the selected artist,
\* selected index + scroll offset is never negative and never exceeds
\* list length - 1.  (SpecNav)
C1_NavigationBounds ==
    pc = "loop" =>
        /\ 0 <= AbsArtist /\ AbsArtist <= Len(ActiveArtists) - 1
        /\ 0 <= AbsSong /\ AbsSong <= Len(SelectedSongs) - 1

\* C1 witness: Right has scrolled the song list of a scrolled-to artist to
\* its last track
C1_Witness ==
    /\ pc = "loop" /\ key = KEY_RIGHT
    /\ artist_offset > 0 /\ song_offset > 0
    /\ AbsSong = Len(SelectedSongs) - 1

\* both cursors are on a visible row that holds an entry
CursorValid ==
    /\ selected_artist < max_rows /\ AbsArtist < Len(ActiveArtists)
    /\ selected_song < max_rows /\ AbsSong < Len(SelectedSongs)

\* the latest iteration ended by issuing load-and-play for `track`
EndsWithLoadAndPlay(track) ==
    /\ Len(cmds) >= 2
    /\ SubSeq(cmds, Len(cmds) - 1, Len(cmds)) = LoadAndPlay(track)

\* the track under the cursors is the current track and was the last one
\* sent to the player in the latest iteration
TrackUnderCursorPlayed ==
    /\ curr_song = SelectedSongs[AbsSong + 1]
    /\ curr_artist = ActiveArtists[AbsArtist + 1]
    /\ EndsWithLoadAndPlay(curr_song)
    /\ playing

\* C2: in Browsing, Enter with a valid song cursor issues load-and-play for
\* exactly the track at absolute position (song offset + selected song) of
\* the flattened track list of the artist at absolute position (artist
\* offset + selected artist) of the active view and records it as the current
\* track; the mode and the view are unchanged, and so are the cursors (when
\* the terminal was not resized in the same iteration).  Without a valid
\* cursor nothing is played and the current track stays.  (SpecSelect)
C2_SelectPlaysTrackUnderCursor ==
    [][ (pc = "loop" /\ ~search_active /\ key' \in EnterKeys) =>
          /\ pc' = "loop" /\ ~search_active'
          /\ search_query' = search_query
          /\ filtered_artists' = filtered_artists
          /\ filtered_library' = filtered_library
          /\ (~screen'.resize_clear =>
                 /\ selected_artist' = selected_artist
                 /\ artist_offset' = artist_offset
                 /\ selected_song' = selected_song
                 /\ song_offset' = song_offset)
          /\ (CursorValid' => TrackUnderCursorPlayed')
          /\ (~CursorValid' =>
                 /\ curr_song' = curr_song /\ curr_artist' = curr_artist
                 /\ cmds' = << >>)
      ]_vars

\* C2 witness: Enter in Browsing, under the filtered indicator, has played
\* the track under a cursor whose two lists are both scrolled
C2_Witness ==
    /\ pc = "loop" /\ key \in EnterKeys /\ ~search_active
    /\ screen.header[1] = "[Filtered: "
    /\ artist_offset > 0 /\ song_offset > 0
    /\ CursorValid /\ TrackUnderCursorPlayed

\* the active view is the unfiltered index
ViewUnfiltered ==
    /\ ActiveArtists = artists /\ ActiveLibrary = library
    /\ filtered_artists = artists /\ filtered_library = library

\* what the Search Filter gives for the full index and the trimmed buffer
FilterOfTrimmedQuery == search_library(library, Strip(search_query))

\* C3: in Searching, Confirm with a query whose trimmed form is non-empty
\* returns to Browsing, makes the active view the Search Filter's result for
\* the full index and the trimmed query, and resets both cursors and both
\* offsets to zero.  (SpecSearch)
C3_ConfirmAppliesFilter ==
    [][ (pc = "loop" /\ search_active /\ key' \in EnterKeys
         /\ Strip(search_query) # << >>) =>
          /\ pc' = "loop" /\ ~search_active'
          /\ search_query' = search_query
          /\ filtered_artists' = FilterOfTrimmedQuery.artists
          /\ filtered_library' = FilterOfTrimmedQuery.lib
          /\ ActiveArtists' = FilterOfTrimmedQuery.artists
          /\ ActiveLibrary' = FilterOfTrimmedQuery.lib
          /\ AllCursorsZero'
      ]_vars

\* C3 witness: Confirm in search mode with the buffer " q" has left exactly
\* artist "C" in the active view
C3_Witness ==
    /\ pc = "loop" /\ key \in EnterKeys /\ ~search_active
    /\ screen.header[1] = "[SEARCH MODE]"
    /\ search_query = <<32, 113>>
    /\ ActiveArtists = << <<67>> >>
    /\ AllCursorsZero

\* C4 (as claimed): in Searching, Confirm with an empty or whitespace-only
\* buffer returns to Browsing with the artist list that was active when
\* search mode was entered.  (SpecSearch; violated)
C4_BlankConfirmKeepsEntryView ==
    [][ (pc = "loop" /\ search_active /\ key' \in EnterKeys
         /\ Strip(search_query) = << >>) =>
          /\ pc' = "loop" /\ ~search_active'
          /\ ActiveArtists' = entry_artists
      ]_vars

\* C5: in Searching, Escape returns to Browsing, empties the query buffer
\* and resets the active view to the unfiltered index, whatever the buffer
\* held and whichever filter was active.  (SpecSearch)
C5_CancelResets ==
    [][ (pc = "loop" /\ search_active /\ key' = KEY_ESC) =>
          /\ pc' = "loop" /\ ~search_active'
          /\ search_query' = << >>
          /\ ViewUnfiltered'
      ]_vars

\* C5 witness: Escape pressed under the search-mode indicator has left
\* Browsing with an empty buffer and the unfiltered view
C5_Witness ==
    /\ pc = "loop" /\ key = KEY_ESC /\ ~search_active
    /\ screen.header[1] = "[SEARCH MODE]" /\ screen.cancel_clear
    /\ search_query = << >> /\ ViewUnfiltered

\* C6: in Browsing with an active filter, the clear-filter key resets the
\* active view to the unfiltered index and both cursors and both offsets to
\* zero; the mode stays Browsing.  (SpecSearch)
C6_ClearFilterResets ==
    [][ (pc = "loop" /\ ~search_active /\ search_query # << >>
         /\ key' = KEY_C) =>
          /\ pc' = "loop" /\ ~search_active'
          /\ search_query' = << >>
          /\ ViewUnfiltered'
          /\ AllCursorsZero'
      ]_vars

\* C6 witness: "c" pressed while the header showed the filter "q" has left
\* the unfiltered view with the cursors at the top
C6_Witness ==
    /\ pc = "loop" /\ key = KEY_C /\ ~search_active
    /\ screen.header = <<"[Filtered: ", <<113>> >>
    /\ search_query = << >> /\ ViewUnfiltered /\ AllCursorsZero

\* the cursors are where the latest key leaves them when it is handled with
\* both cursors and both offsets at zero: only Down and Right, in Browsing,
\* move away from the top, by one step
CursorsOneKeyFromTop ==
    /\ selected_artist >= 0 /\ artist_offset >= 0
    /\ selected_song >= 0 /\ song_offset >= 0
    /\ AbsArtist <= (IF key = KEY_DOWN /\ screen.header[1] # "[SEARCH MODE]"
                     THEN 1 ELSE 0)
    /\ AbsSong <= (IF key = KEY_RIGHT /\ screen.header[1] # "[SEARCH MODE]"
                   THEN 1 ELSE 0)

\* C7: in either mode, when the dimensions observed in an iteration differ
\* from the last known ones, the resize handling zeroes both cursors and both
\* offsets (so the iteration ends with them where its key leaves them from
\* the top) and the last known dimensions become the observed ones; the
\* last known dimensions always equal the latest observed ones.  (SpecSearch)
C7_ResizeResetsCursors ==
    [][ pc = "loop" =>
          /\ height' = new_height' /\ width' = new_width'
          /\ (<<new_height', new_width'>> # <<height, width>> =>
                 /\ screen'.resize_clear
                 /\ max_rows' = new_height' - ContentMargin - BorderRows
                 /\ CursorsOneKeyFromTop')
      ]_vars

\* C7 witness: an iteration in search mode saw the width change and ended
\* with the cursors at the top
C7_Witness ==
    /\ pc = "loop" /\ search_active /\ screen.resize_clear
    /\ screen.header[1] = "[SEARCH MODE]"
    /\ width = 81 /\ AllCursorsZero

\* C9: the quit key ends the session only in Browsing; in Searching no input
\* ends it, the quit key is appended to the query buffer, and the mode is
\* left only by Escape or Confirm.  (SpecSearch)
C9_QuitOnlyInBrowsing ==
    [][ pc = "loop" =>
          /\ (pc' = "quit" => ~search_active /\ key' = KEY_Q)
          /\ (~search_active /\ key' = KEY_Q => pc' = "quit")
          /\ (search_active =>
                 /\ pc' = "loop"
                 /\ (~search_active' => key' \in EnterKeys \cup {KEY_ESC}))
          /\ (search_active /\ key' = KEY_Q =>
                 /\ search_active'
                 /\ search_query' = Append(search_query, KEY_Q))
      ]_vars

\* C9 witness: the quit key pressed in search mode was taken as query text
\* and the loop is still running
C9_Witness ==
    /\ pc = "loop" /\ search_active /\ key = KEY_Q
    /\ screen.header[1] = "[SEARCH MODE]"
    /\ search_query # << >> /\ search_query[Len(search_query)] = KEY_Q

\* the calls that start or stop playback
PlaybackOps == {"stop", "set_media", "play"}

\* player.stop() followed by load-and-play of `track`
Replay(track) == << Cmd("stop", 0) >> \o LoadAndPlay(track)

\* C8: in every iteration in which repeat is on, a current track is set and
\* the engine reports Ended, the controller first stops and plays that same
\* current track again; this changes neither the current track nor the mode
\* (they change only if the same iteration's key is Enter, resp. "/" or
\* Escape).  When repeat is off or the track has not ended, nothing is
\* replayed: the only playback calls are those of a song selection.
\* (SpecPlayback)
C8_RepeatReissuesPlay ==
    [][ pc = "loop" =>
          /\ (repeat /\ curr_song # None /\ curr_artist # None /\ ended' =>
                 /\ Len(cmds') >= 3
                 /\ SubSeq(cmds', 1, 3) = Replay(curr_song)
                 /\ (key' \notin EnterKeys =>
                        /\ curr_song' = curr_song
                        /\ curr_artist' = curr_artist)
                 /\ (key' \notin EnterKeys \cup {KEY_SLASH, KEY_ESC} =>
                        search_active' = search_active)
                 /\ (key' = NO_KEY =>
                        /\ cmds' = Replay(curr_song)
                        /\ pc' = "loop" /\ repeat'))
          /\ (~(repeat /\ ended') /\ key' \notin EnterKeys =>
                 \A i \in 1..Len(cmds') : cmds'[i].op \notin PlaybackOps)
          /\ (~(repeat /\ ended') /\ key' \in EnterKeys =>
                 cmds' = << >> \/ cmds' = LoadAndPlay(curr_song'))
      ]_vars

\* C8 witness: with repeat on, an iteration without a key found the second
\* track of artist "A" ended and replayed it
C8_Witness ==
    /\ pc = "loop" /\ repeat /\ ended /\ key = NO_KEY
    /\ curr_song = <<47, 113, 47, 65, 47, 99>>
    /\ cmds = Replay(curr_song)

\* C10 (as claimed): every seek command sent to the engine carries a
\* position that is not negative and, when the engine reports a duration
\* (get_length() > 0), not beyond it.  A duration that is unknown (-1) or
\* not yet available (0) is read here in the claim's favour, as imposing
\* no upper limit.
\* (SpecPlayback; violated: a forward seek sends min(-1, t + step) = -1)
C10_SeekWithinDuration ==
    \A i \in 1..Len(cmds) :
        cmds[i].op = "set_time" =>
            /\ 0 <= cmds[i].arg
            /\ (player_length > 0 => cmds[i].arg <= player_length)

\* C11 (as claimed): when the engine rejects the load-and-play issued by a
\* song selection, the session loop keeps running and the rejected track is
\* not recorded as the current track.  (SpecPlayback; violated: curr_song is
\* assigned before the player is called and play()'s result is discarded)
C11_RejectedTrackNotCurrent ==
    play_status = PlayFailed =>
        /\ pc = "loop"
        /\ ~EndsWithLoadAndPlay(curr_song)

\* C12: when the index is empty the session shows the empty-library message,
\* waits for one key and returns without entering the loop: that key moves
\* no cursor, starts no search and no playback, and no command is ever sent
\* to the playback engine.  (SpecNav)
C12_EmptyLibraryNeverBrowses ==
    library = << >> =>
        /\ pc \in {"empty", "done"}
        /\ screen.message = EmptyMessage
        /\ cmds = << >>
        /\ AllCursorsZero
        /\ ~search_active /\ search_query = << >>
        /\ curr_song = None /\ ~playing

\* C12 witness: with an empty library the "/" key has ended the wait and
\* the session has returned
C12_Witness ==
    /\ library = << >> /\ pc = "done" /\ key = KEY_SLASH
    /\ screen.message = EmptyMessage /\ cmds = << >>

\* the positions of the artists of `library` that the query selects: the
\* lower-cased query occurs in the lower-cased name or in the lower-cased
\* basename of a track of one of the artist's albums
Included ==
    {i \in 1..Len(library) :
        \/ IsSubstring(Lower(search_query), Lower(library[i].artist))
        \/ \E j \in 1..Len(library[i].albums) :
              \E k \in 1..Len(library[i].albums[j].tracks) :
                 IsSubstring(Lower(search_query),
                             Lower(Basename(library[i].albums[j].tracks[k])))}

\* C13: for a non-empty query search_library includes an artist iff the
\* lower-cased query is a substring of the lower-cased name or of the
\* lower-cased basename of one of the artist's tracks; the returned artist
\* list is exactly the included artists in discovery order and equals the
\* keys of the returned index.  (SpecFilter)
C13_FilterIncludesExactlyMatches ==
    pc = "return" /\ search_query # << >> =>
        /\ filtered_artists =
               SelectSeq(artists, LAMBDA a :
                   \E i \in Included : library[i].artist = a)
        /\ Len(filtered_artists) = Cardinality(Included)
        /\ Len(filtered_library) = Len(filtered_artists)
        /\ \A i \in 1..Len(filtered_library) :
               filtered_library[i].artist = filtered_artists[i]

\* C13 witness: the query "A" has kept artist "c" for its track "/b/a" and
\* artist "a" for its name, in that order
C13_Witness ==
    /\ pc = "return" /\ search_query = <<65>>
    /\ Len(library) = 2
    /\ library[1].artist = <<99>> /\ library[2].artist = <<97>>
    /\ library[1].albums[1].tracks = << <<47, 98, 47, 97>> >>
    /\ library[2].albums = << [name |-> <<120>>, tracks |-> << <<99>> >>] >>
    /\ filtered_artists = << <<99>>, <<97>> >>

\* C14: filtering is artist-granular: every artist of the filtered index
\* maps to exactly the albums and tracks it has in the source index, and the
\* call leaves the source index as it was.  (SpecFilter)
C14_FilterKeepsWholeArtists ==
    [][ /\ library' = library
        /\ \A i \in 1..Len(filtered_library') :
              \E j \in 1..Len(library) :
                 /\ library[j].artist = filtered_library'[i].artist
                 /\ library[j].albums = filtered_library'[i].albums
      ]_vars

\* C14 witness: the query "a" has kept artist "B" with both of its albums
\* although only "/b/a" of the first one matches
C14_Witness ==
    /\ pc = "return" /\ search_query = <<97>>
    /\ filtered_artists = << <<66>> >>
    /\ filtered_library[1].albums =
           << [name |-> <<120>>, tracks |-> << <<47, 98, 47, 97>> >>],
              [name |-> <<121>>, tracks |-> << <<99>> >>] >>

\* C15: with the empty query search_library returns an index equal to its
\* input and the artists in the input's order, for every index.
\* (SpecFilter)
C15_EmptyQueryIsIdentity ==
    pc = "return" /\ search_query = << >> =>
        /\ filtered_library = library
        /\ Len(filtered_artists) = Len(library)
        /\ \A i \in 1..Len(library) : filtered_artists[i] = library[i].artist

\* C15 witness: the empty query applied to the index of "c" then "B"
C15_Witness ==
    /\ pc = "return" /\ search_query = << >>
    /\ Len(library) = 2
    /\ library[1].artist = <<99>> /\ library[2].artist = <<66>>
    /\ filtered_artists = << <<99>>, <<66>> >>

\* every volume sent to the player in the latest iteration is within
\* [0, MaxVolume]
VolumeCmdsInRange ==
    \A i \in 1..Len(cmds) :
        cmds[i].op = "audio_set_volume" =>
            0 <= cmds[i].arg /\ cmds[i].arg <= MaxVolume

\* C16: starting from 50, after any sequence of volume-up and volume-down
\* inputs the level is within [0, 100]; volume-up at 100 and volume-down at 0
\* leave it unchanged, below resp. above that they move it by one step; and
\* every value sent to the playback engine is the new level, within
\* [0, 100].  (SpecVolume)
C16_VolumeClamped ==
    /\ volume = InitialVolume /\ VolumeCmdsInRange
    /\ [][ pc = "loop" =>
             /\ 0 <= volume' /\ volume' <= MaxVolume
             /\ VolumeCmdsInRange'
             /\ (key' = KEY_EQUALS =>
                    /\ volume' = IF volume = MaxVolume THEN volume
                                 ELSE volume + VolumeStep
                    /\ cmds' = << Cmd("audio_set_volume", volume') >>)
             /\ (key' = KEY_MINUS =>
                    /\ volume' = IF volume = 0 THEN volume
                                 ELSE volume - VolumeStep
                    /\ cmds' = << Cmd("audio_set_volume", volume') >>)
             /\ (key' \notin {KEY_EQUALS, KEY_MINUS} =>
                    volume' = volume /\ cmds' = << >>)
         ]_vars

\* C16 witness: volume-up has been pressed with the level at its maximum
\* and 100 was sent once more
C16_Witness ==
    /\ pc = "loop" /\ key = KEY_EQUALS /\ volume = MaxVolume
    /\ cmds = << Cmd("audio_set_volume", MaxVolume) >>

BackspaceKeys == {KEY_BACKSPACE, KEY_BS, KEY_DEL}

Printable(k) == 32 <= k /\ k <= 126

\* C17: in Searching, a printable character (32..126) is appended at the end
\* of the query buffer, Backspace removes its last character (none from an
\* empty buffer), and every other input but Escape (Enter, the navigation
\* keys, no key) leaves it unchanged; the mode stays Searching for every
\* input but Escape and Confirm.  (SpecSearch)
C17_QueryBufferEdits ==
    [][ pc = "loop" /\ search_active =>
          /\ (Printable(key') => search_query' = Append(search_query, key'))
          /\ (key' \in BackspaceKeys =>
                 search_query' = IF search_query = << >> THEN << >>
                                 ELSE SubSeq(search_query, 1,
                                             Len(search_query) - 1))
          /\ (~Printable(key') /\ key' \notin BackspaceKeys \cup {KEY_ESC} =>
                 search_query' = search_query)
          /\ (search_active' <=> key' \notin EnterKeys \cup {KEY_ESC})
      ]_vars

\* C17 witness: in search mode the Delete key has left " " in the buffer,
\* which it can only have cut from a longer one
C17_Witness ==
    /\ pc = "loop" /\ search_active
    /\ key = KEY_DEL /\ search_query = <<32>>

\* the flattened track list of the i-th artist (from 0) of the active view
SongsAt(i) ==
    IF i >= 0 /\ i < Len(ActiveArtists)
    THEN flatten_album(Lookup(ActiveLibrary, ActiveArtists[i + 1]))
    ELSE << >>

\* a forward step in a list of length len shown on `rows` rows: from cursor
\* c0 and offset o0 to cursor c1 and offset o1
StepForward(c0, o0, c1, o1, len, rows) ==
    /\ (c0 + o0 < len - 1 =>
           /\ c1 + o1 = c0 + o0 + 1
           /\ \/ c1 = c0 + 1 /\ o1 = o0 /\ c0 < rows - 1
              \/ c1 = c0 /\ o1 = o0 + 1)
    /\ (c0 + o0 = len - 1 => c1 = c0 /\ o1 = o0)

\* a backward step
StepBackward(c0, o0, c1, o1) ==
    /\ (c0 + o0 > 0 =>
           /\ c1 + o1 = c0 + o0 - 1
           /\ \/ c1 = c0 - 1 /\ o1 = o0 /\ c0 > 0
              \/ c1 = c0 /\ o1 = o0 - 1)
    /\ (c0 + o0 = 0 => c1 = c0 /\ o1 = o0)

\* C18 (as claimed): in Browsing with at least one visible row, Down (resp.
\* Right) at absolute position p < list length - 1 moves the absolute
\* position to p + 1 by incrementing exactly one of cursor and offset, the
\* cursor only while it is below the last visible row, and at
\* p = list length - 1 changes neither; Up (resp. Left) is symmetric toward
\* 0; the cursor stays below the number of visible rows.  The positions
\* before the step are those left by the iteration's resize handling.
\* (SpecScroll; violated: Right at the last track of a list that a view
\* switch has made shorter moves the cursor past the end)
C18_WindowedScrollStep ==
    [][ pc = "loop" /\ ~search_active /\ max_rows' >= 1 =>
          LET resized == <<new_height', new_width'>> # <<height, width>>
              ca == IF resized THEN 0 ELSE selected_artist
              oa == IF resized THEN 0 ELSE artist_offset
              cs == IF resized THEN 0 ELSE selected_song
              os == IF resized THEN 0 ELSE song_offset
              songs == IF resized THEN SongsAt(0) ELSE SongsAt(AbsArtist)
          IN  /\ (key' = KEY_DOWN =>
                     StepForward(ca, oa, selected_artist', artist_offset',
                                 Len(ActiveArtists), max_rows'))
              /\ (key' = KEY_UP =>
                     StepBackward(ca, oa, selected_artist', artist_offset'))
              /\ (key' = KEY_RIGHT =>
                     StepForward(cs, os, selected_song', song_offset',
                                 Len(songs), max_rows'))
              /\ (key' = KEY_LEFT =>
                     StepBackward(cs, os, selected_song', song_offset'))
              /\ selected_artist' < max_rows' /\ selected_song' < max_rows'
      ]_vars

\* C19 (as claimed): in every reachable state, whatever inputs led to it,
\* selected index + offset is at most list length - 1 for the artist list of
\* the active view and for the track list of the artist under the cursor.
\* An empty list is read here in the claim's favour, as imposing no bound.
\* (SpecScroll; violated: a view switched without a cursor reset is shorter
\* than the position the cursors hold)
C19_BoundsInEveryState ==
    pc = "loop" =>
        /\ (ActiveArtists # << >> => AbsArtist <= Len(ActiveArtists) - 1)
        /\ (SelectedSongs # << >> => AbsSong <= Len(SelectedSongs) - 1)

\* C20 (as claimed): while in Searching, a character input or a Backspace
\* leaves the active view as it is: the artist list and the index that are
\* displayed and used for selection do not change.
\* (SpecScroll; violated: the view follows the emptiness of the buffer)
C20_EditingKeepsView ==
    [][ (pc = "loop" /\ search_active
         /\ (Printable(key') \/ key' \in BackspaceKeys)) =>
          /\ search_active'
          /\ ActiveArtists' = ActiveArtists
          /\ ActiveLibrary' = ActiveLibrary
      ]_vars

\* every track path of the full index
AllTracks ==
    UNION {UNION {{library[i].albums[j].tracks[k] :
                      k \in 1..Len(library[i].albums[j].tracks)} :
                  j \in 1..Len(library[i].albums)} :
           i \in 1..Len(library)}

\* C21: the current track changes only through a song selection (Enter in
\* Browsing, which ends by load-and-play of the new current track): search
\* confirm and cancel, clear-filter, resize, navigation, the repeat, volume
\* and seek keys leave it unchanged; once set it is never
\* unset; and it is always a track of the full index, also when the active
\* filtered view does not hold it.  (SpecTrack)
C21_CurrentTrackFrame ==
    /\ curr_song = None
    /\ [][ pc = "loop" =>
             /\ (curr_song' # curr_song =>
                    /\ ~search_active /\ ~search_active'
                    /\ key' \in EnterKeys
                    /\ Len(cmds') >= 2
                    /\ SubSeq(cmds', Len(cmds') - 1, Len(cmds'))
                           = LoadAndPlay(curr_song'))
             /\ (curr_song # None => curr_song' # None)
             /\ (curr_song' # None => curr_song' \in AllTracks)
         ]_vars

\* C21 witness: track "/a" of artist "X" is current, repeat is on, and the
\* active view is the filter result for "q", which holds artist "Q" alone
C21_Witness ==
    /\ pc = "loop" /\ ~search_active /\ repeat
    /\ curr_song = <<47, 97>>
    /\ search_query = <<113>> /\ ActiveArtists = << <<81>> >>

====
